---- MODULE Spec2Model ----
(***************************************************************************)
(* Model of the popup of the tab manager (src/src/popup/popup-app.js).     *)
(*                                                                         *)
(* Strings are sequences of one-character strings.  A JavaScript array is  *)
(* a sequence; a Set is a sequence without repetition, in insertion order; *)
(* a Map is a sequence of entries [key, value], in insertion order.        *)
(*                                                                         *)
(* The component is a Preact component (the file imports preact/hooks, so  *)
(* Preact 10): this.setState(u) merges u into the pending state and queues *)
(* a render; this.state itself is replaced by the pending state when the   *)
(* queued render runs, in a microtask after the running handler returns    *)
(* and before the next event is dispatched.  Inside a handler this.state   *)
(* therefore still reads the state the handler started with.  Each action  *)
(* below is one handler followed by that render.                           *)
(***************************************************************************)
EXTENDS Integers, Sequences, FiniteSets, TLC

VARIABLES
  state,         \* App.state, as render() receives it
  queryResult,   \* what ext.tabs.query({}) is going to answer
  queryPending,  \* the callback of ext.tabs.query has not run yet
  ext,           \* what the last user action sent to the browser and the console
  fnTabs,        \* argument of a pure function: a tab list
  fnQuery,       \* argument of a pure function: a search string
  fnOut          \* the pure function applied last, and what it returned

vars == <<state, queryResult, queryPending, ext, fnTabs, fnQuery, fnOut>>
appVars == <<state, queryResult, queryPending, ext>>
fnVars == <<fnTabs, fnQuery, fnOut>>

(***************************************************************************)
(* Bounds and input sets                                                   *)
(***************************************************************************)
MaxQueryLen == 2
Threshold == 2600

\* ids on both sides of the threshold handleTabRemoved compares with
TabIds == {1, Threshold + 1}
\* the pure methods are applied to lists of up to three tabs
FnTabIds == {1, 2, Threshold + 1}
WindowIds == {10, 20}
TabTexts == { [title |-> <<"A">>, url |-> <<"b">>],
              [title |-> <<"b">>, url |-> <<"a", "a">>] }
QueryChars == {"a", "A", " "}

TabsWithIds(ids) ==
  { [id |-> i, windowId |-> w, title |-> t.title, url |-> t.url] :
      i \in ids, w \in WindowIds, t \in TabTexts }

Range(s) == { s[i] : i \in 1..Len(s) }

SeqsUpTo(S, n) == UNION { [1..k -> S] : k \in 0..n }

\* what the browser can answer: tabs with pairwise different ids
TabListsWithIds(ids) ==
  { l \in SeqsUpTo(TabsWithIds(ids), Cardinality(ids)) :
      \A i, j \in 1..Len(l) : l[i].id = l[j].id => i = j }

TabLists == TabListsWithIds(TabIds)
FnTabLists == TabListsWithIds(FnTabIds)

Queries == SeqsUpTo(QueryChars, MaxQueryLen)

(***************************************************************************)
(* String.prototype operations                                             *)
(***************************************************************************)
LowerChar(c) == IF c = "A" THEN "a" ELSE IF c = "B" THEN "b" ELSE c

toLowerCase(s) == [i \in 1..Len(s) |-> LowerChar(s[i])]

\* includes with an empty needle answering false
includesNonEmpty(s, sub) ==
  /\ sub # <<>>
  /\ \E i \in 0..(Len(s) - Len(sub)) : SubSeq(s, i + 1, i + Len(sub)) = sub

includes(s, sub) ==
  \E i \in 0..(Len(s) - Len(sub)) : SubSeq(s, i + 1, i + Len(sub)) = sub

RECURSIVE split(_)
split(s) ==
  IF \A i \in 1..Len(s) : s[i] # " "
  THEN <<s>>
  ELSE LET i == CHOOSE k \in 1..Len(s) :
                  s[k] = " " /\ \A j \in 1..(k - 1) : s[j] # " "
       IN  <<SubSeq(s, 1, i - 1)>> \o split(SubSeq(s, i + 1, Len(s)))

(***************************************************************************)
(* Array, Set and Map operations                                           *)
(***************************************************************************)
\* the test handleTabRemoved hands to findIndex
IsOverThreshold(i) == i.id > Threshold

\* arr.findIndex(i => i.id > 2600): 0-based, -1 when no element passes
findIndex(arr) ==
  IF \E k \in 1..Len(arr) : IsOverThreshold(arr[k])
  THEN (CHOOSE k \in 1..Len(arr) :
          IsOverThreshold(arr[k]) /\ \A j \in 1..(k - 1) : ~IsOverThreshold(arr[j])) - 1
  ELSE -1

\* Array.prototype.splice(start, deleteCount): a negative start counts from the end
splice(arr, start, deleteCount) ==
  LET len == Len(arr)
      from == IF start < 0
              THEN (IF len + start < 0 THEN 0 ELSE len + start)
              ELSE (IF start > len THEN len ELSE start)
      cnt == IF deleteCount < 0 THEN 0
             ELSE IF deleteCount > len - from THEN len - from ELSE deleteCount
  IN  SubSeq(arr, 1, from) \o SubSeq(arr, from + cnt + 1, len)

SetAdd(set, x) == IF x \in Range(set) THEN set ELSE Append(set, x)

MapHas(map, k) == \E i \in 1..Len(map) : map[i].key = k

MapGet(map, k) == map[CHOOSE i \in 1..Len(map) : map[i].key = k].value

MapSet(map, k, v) ==
  IF MapHas(map, k)
  THEN [i \in 1..Len(map) |-> IF map[i].key = k THEN [key |-> k, value |-> v] ELSE map[i]]
  ELSE Append(map, [key |-> k, value |-> v])

(***************************************************************************)
(* App: the pure methods                                                   *)
(***************************************************************************)
\* the reducer putting a fresh Set under the key every time
reduceWindowsStepFresh(acc, tab) == MapSet(acc, tab.windowId, SetAdd(<<>>, tab))

\* the callback App.reduceWindows passes to Array.prototype.reduce
reduceWindowsStep(acc, tab) ==
  IF MapHas(acc, tab.windowId)
  THEN MapSet(acc, tab.windowId, SetAdd(MapGet(acc, tab.windowId), tab))
  ELSE MapSet(acc, tab.windowId, SetAdd(<<>>, tab))

RECURSIVE reduceWindowsFrom(_, _, _)
reduceWindowsFrom(tabs, i, acc) ==
  IF i > Len(tabs) THEN acc
  ELSE reduceWindowsFrom(tabs, i + 1, reduceWindowsStep(acc, tabs[i]))

reduceWindows(tabs) == reduceWindowsFrom(tabs, 1, <<>>)

\* the for loop of App.fuzzySearch: FALSE as soon as a term misses
RECURSIVE fuzzySearchFrom(_, _, _, _)
fuzzySearchFrom(tabTitle, tabUrl, searchSubString, i) ==
  IF i > Len(searchSubString) THEN TRUE
  ELSE IF ~includes(tabTitle, searchSubString[i]) /\ ~includes(tabUrl, searchSubString[i])
       THEN FALSE
       ELSE fuzzySearchFrom(tabTitle, tabUrl, searchSubString, i + 1)

fuzzySearch(tab, searchString) ==
  fuzzySearchFrom(toLowerCase(tab.title), toLowerCase(tab.url), split(searchString), 1)

\* this.state.tabs.filter(tab => this.fuzzySearch(tab, filterString))
filterArray(tabs, filterString) ==
  SelectSeq(tabs, LAMBDA tab : fuzzySearch(tab, filterString))

(***************************************************************************)
(* App: constructor and handlers.  In a handler, cur is this.state and     *)
(* pending is the state its setState calls have built so far.              *)
(***************************************************************************)
InitialState ==
  [tabs |-> <<>>, windows |-> <<>>, filter |-> <<>>,
   filteredTabs |-> <<>>, filteredWindows |-> <<>>]

NoCall == [calls |-> <<>>, console |-> "none"]

\* filterTabs grouping the tabs it read instead of the tabs it kept
filterTabsGroupAll(cur, pending, filterString) ==
  LET filteredTabs == filterArray(cur.tabs, filterString)
      filteredWindows == reduceWindows(cur.tabs)
  IN  [pending EXCEPT !.filteredTabs = filteredTabs,
                      !.filteredWindows = filteredWindows]

filterTabs(cur, pending, filterString) ==
  LET filteredTabs == filterArray(cur.tabs, filterString)
      filteredWindows == reduceWindows(filteredTabs)
  IN  [pending EXCEPT !.filteredTabs = filteredTabs,
                      !.filteredWindows = filteredWindows]

handleTabListInitialization ==
  /\ queryPending
  /\ LET tabs == queryResult
         windows == reduceWindows(tabs)
     IN  state' = [state EXCEPT !.tabs = tabs, !.windows = windows,
                                !.filteredTabs = tabs, !.filteredWindows = windows]
  /\ queryPending' = FALSE
  /\ UNCHANGED <<queryResult, ext, fnVars>>

handleTabRemoved(tabId) ==
  /\ LET tabs == state.tabs
         index == findIndex(tabs)
         spliced == splice(tabs, index, 1)
         pending == [state EXCEPT !.tabs = spliced]
     IN  state' = filterTabs(state, pending, state.filter)
  /\ UNCHANGED <<queryResult, queryPending, ext, fnVars>>

handleFuzzyFilterUpdate(filter) ==
  /\ LET pending == [state EXCEPT !.filter = filter]
     IN  state' = filterTabs(state, pending, filter)
  /\ UNCHANGED <<queryResult, queryPending, ext, fnVars>>

(***************************************************************************)
(* User actions on what render() shows: the rows of state.filteredWindows  *)
(***************************************************************************)
Call(api, id) == [api |-> api, id |-> id]

RenderedWindows == Range(state.filteredWindows)
RenderedTabs == UNION { Range(w.value) : w \in RenderedWindows }

focusTabAndWindow(tab) ==
  /\ ext' = [calls |-> <<Call("tabs.update", tab.id), Call("windows.update", tab.windowId)>>,
             console |-> "none"]
  /\ UNCHANGED <<state, queryResult, queryPending, fnVars>>

\* closeTab dropping the row from the held tabs itself, before the browser reports it
closeTabOptimistic(tab) ==
  /\ ext' = [calls |-> <<Call("tabs.remove", tab.id)>>, console |-> "none"]
  /\ state' = [state EXCEPT !.tabs = SelectSeq(state.tabs, LAMBDA t : t.id # tab.id)]
  /\ UNCHANGED <<queryResult, queryPending, fnVars>>

closeTab(tab) ==
  /\ ext' = IF tab.id # 0
            THEN [calls |-> <<Call("tabs.remove", tab.id)>>, console |-> "none"]
            ELSE [calls |-> <<>>, console |-> "log"]
  /\ UNCHANGED <<state, queryResult, queryPending, fnVars>>

\* discarded is what the browser passes to the callback of ext.tabs.discard
discardTab(tab, discarded) ==
  /\ ext' = IF tab.id # 0
            THEN [calls |-> <<Call("tabs.discard", tab.id)>>,
                  console |-> IF ~discarded THEN "warn" ELSE "none"]
            ELSE [calls |-> <<>>, console |-> "log"]
  /\ UNCHANGED <<state, queryResult, queryPending, fnVars>>

discardWindow(window) ==
  /\ ext' = [calls |-> [k \in 1..Len(SelectSeq(window.value, LAMBDA tab : tab.id # 0)) |->
                          Call("tabs.discard",
                               SelectSeq(window.value, LAMBDA tab : tab.id # 0)[k].id)],
             console |-> "log"]
  /\ UNCHANGED <<state, queryResult, queryPending, fnVars>>

(***************************************************************************)
(* The popup                                                               *)
(***************************************************************************)
NoFn == [fn |-> "none"]

Init ==
  /\ state = InitialState
  /\ queryResult \in TabLists
  /\ queryPending = TRUE
  /\ ext = NoCall
  /\ fnTabs = <<>>
  /\ fnQuery = <<>>
  /\ fnOut = NoFn

Next ==
  \/ handleTabListInitialization
  \/ \E tabId \in TabIds : handleTabRemoved(tabId)
  \/ \E filter \in Queries : handleFuzzyFilterUpdate(filter)
  \/ \E tab \in RenderedTabs : focusTabAndWindow(tab)
  \/ \E tab \in RenderedTabs : closeTab(tab)
  \/ \E tab \in RenderedTabs, discarded \in BOOLEAN : discardTab(tab, discarded)
  \/ \E window \in RenderedWindows : discardWindow(window)

Spec == Init /\ [][Next]_vars

(***************************************************************************)
(* The pure methods on their own: arguments drawn at the start, then one   *)
(* method applied to them.                                                 *)
(***************************************************************************)
InitFn ==
  /\ state = InitialState
  /\ queryResult = <<>>
  /\ queryPending = TRUE
  /\ ext = NoCall
  /\ fnTabs \in FnTabLists
  /\ fnQuery \in Queries
  /\ fnOut = NoFn

CallFuzzySearch(k) ==
  /\ fnOut = NoFn
  /\ fnOut' = [fn |-> "fuzzySearch", tab |-> fnTabs[k],
               result |-> fuzzySearch(fnTabs[k], fnQuery)]
  /\ UNCHANGED <<appVars, fnTabs, fnQuery>>

CallFilter ==
  /\ fnOut = NoFn
  /\ fnOut' = [fn |-> "filter", result |-> filterArray(fnTabs, fnQuery)]
  /\ UNCHANGED <<appVars, fnTabs, fnQuery>>

CallReduceWindows ==
  /\ fnOut = NoFn
  /\ fnOut' = [fn |-> "reduceWindows", result |-> reduceWindows(fnTabs)]
  /\ UNCHANGED <<appVars, fnTabs, fnQuery>>

NextFn ==
  \/ \E k \in 1..Len(fnTabs) : CallFuzzySearch(k)
  \/ CallFilter
  \/ CallReduceWindows

SpecFn == InitFn /\ [][NextFn]_vars

(***************************************************************************)
(* Properties                                                              *)
(***************************************************************************)
HasId(tabs, id) == \E k \in 1..Len(tabs) : tabs[k].id = id

WithoutId(tabs, id) == SelectSeq(tabs, LAMBDA t : t.id # id)

\* sub occurs in s, letter case ignored
Occurs(sub, s) ==
  \E i \in 1..(Len(s) - Len(sub) + 1) :
    \A j \in 1..Len(sub) : LowerChar(s[i + j - 1]) = LowerChar(sub[j])

\* the maximal space-free pieces of q, empty pieces included
Terms(q) ==
  LET cuts == {0, Len(q) + 1} \cup { i \in 1..Len(q) : q[i] = " " }
  IN  { SubSeq(q, a + 1, b - 1) :
          <<a, b>> \in { c \in cuts \X cuts :
                           c[1] < c[2] /\ \A m \in cuts : ~(c[1] < m /\ m < c[2]) } }

MatchesIgnoringCase(tab, q) ==
  \A t \in Terms(q) : Occurs(t, tab.title) \/ Occurs(t, tab.url)

\* the same, the query's letters taken as typed (the tab's text is lower-cased)
MatchesTyped(tab, q) ==
  \A t \in Terms(q) :
    t # <<>> => \/ \E i \in 1..(Len(tab.title) - Len(t) + 1) :
                     \A j \in 1..Len(t) : LowerChar(tab.title[i + j - 1]) = t[j]
                \/ \E i \in 1..(Len(tab.url) - Len(t) + 1) :
                     \A j \in 1..Len(t) : LowerChar(tab.url[i + j - 1]) = t[j]

OnlySpaces(q) == \A i \in 1..Len(q) : q[i] = " "

GroupedTabs(windows) == UNION { Range(w.value) : w \in Range(windows) }

\* where tab sits in a grouping: <<entry, position>>
Places(windows, tab) ==
  UNION { { <<i, j>> : j \in { m \in 1..Len(windows[i].value) : windows[i].value[m] = tab } } :
            i \in 1..Len(windows) }

\* C1: a removal notification for a tab that is held leaves the held tabs
\* without exactly that tab, the others in their order.
C1_RemoveTakesOutThatTab ==
  [][\A tabId \in TabIds :
       (handleTabRemoved(tabId) /\ HasId(state.tabs, tabId))
         => state'.tabs = WithoutId(state.tabs, tabId)]_vars

\* C2: a removal notification for an id no held tab has changes nothing of
\* the held tabs.
C2_RemoveAbsentIsNoOp ==
  [][\A tabId \in TabIds :
       (handleTabRemoved(tabId) /\ ~HasId(state.tabs, tabId))
         => state'.tabs = state.tabs]_vars

\* C3: fuzzySearch answers true exactly when every term of the query occurs,
\* letter case ignored, in the tab's title or in its url.
C3_MatchesIgnoresCase ==
  fnOut.fn = "fuzzySearch" => (fnOut.result <=> MatchesIgnoringCase(fnOut.tab, fnQuery))

\* C4: the filtered tabs, listed and grouped, are among the held tabs.
C4_FilteredAmongHeld ==
  /\ Range(state.filteredTabs) \subseteq Range(state.tabs)
  /\ GroupedTabs(state.filteredWindows) \subseteq Range(state.tabs)

\* C5: after every handler the grouping render() receives is the grouping of
\* the held tabs that match the current filter.
C5_RenderedIsFilterOfHeld ==
  state.filteredWindows = reduceWindows(filterArray(state.tabs, state.filter))

\* C6: state.windows is the grouping of the held tabs.
C6_WindowsFollowHeld ==
  state.windows = reduceWindows(state.tabs)

\* C7: filtering by the empty query, or by a query of spaces only, returns
\* the tabs as they are; and an empty term never makes a tab miss.
C7_EmptyTermsMatchAll ==
  /\ (fnOut.fn = "filter" /\ OnlySpaces(fnQuery)) => fnOut.result = fnTabs
  /\ fnOut.fn = "fuzzySearch" => (fnOut.result <=> MatchesTyped(fnOut.tab, fnQuery))

C7_Witness ==
  /\ fnOut.fn = "filter"
  /\ fnQuery = <<" ", " ">>
  /\ Len(fnTabs) = 3
  /\ fnOut.result = fnTabs

\* C8: reduceWindows puts every tab of its argument in exactly one bucket,
\* the one keyed by the tab's windowId, and nothing else in any bucket.
C8_ReduceWindowsPartitions ==
  fnOut.fn = "reduceWindows" =>
    /\ \A k \in 1..Len(fnTabs) :
         /\ Cardinality(Places(fnOut.result, fnTabs[k])) = 1
         /\ \A p \in Places(fnOut.result, fnTabs[k]) :
              fnOut.result[p[1]].key = fnTabs[k].windowId
    /\ GroupedTabs(fnOut.result) \subseteq Range(fnTabs)
    /\ \A i, j \in 1..Len(fnOut.result) :
         fnOut.result[i].key = fnOut.result[j].key => i = j

C8_Witness ==
  /\ fnOut.fn = "reduceWindows"
  /\ Len(fnTabs) = 3
  /\ Len(fnOut.result) = 2

\* C9: the filtered grouping is the grouping of the filtered tabs; a window
\* is a key of it exactly when a filtered tab is in that window; no bucket
\* is empty.
C9_FilteredWindowsOfFilteredTabs ==
  /\ state.filteredWindows = reduceWindows(state.filteredTabs)
  /\ \A w \in WindowIds :
       MapHas(state.filteredWindows, w)
         <=> \E k \in 1..Len(state.filteredTabs) : state.filteredTabs[k].windowId = w
  /\ \A i \in 1..Len(state.filteredWindows) : state.filteredWindows[i].value # <<>>

C9_Witness ==
  /\ Len(state.tabs) = 2
  /\ Len(state.filteredTabs) = 1
  /\ state.tabs[1].windowId # state.tabs[2].windowId
  /\ Len(state.filteredWindows) = 1
  /\ state.filter # <<>>

\* C10: only the enumeration callback and a removal notification change the
\* held tabs; a keystroke, focus, close, discard (refused or not) and
\* discard-window leave them as they are; and the held tabs are always among
\* the tabs the enumeration supplied.
C10_HeldChangedOnlyByProvider ==
  [][/\ state'.tabs # state.tabs
          => \/ handleTabListInitialization
             \/ \E tabId \in TabIds : handleTabRemoved(tabId)
     /\ (state'.filter # state.filter \/ ext' # ext) => state'.tabs = state.tabs
     /\ Range(state'.tabs) \subseteq Range(queryResult)]_vars

C10_Witness ==
  /\ ext.console = "warn"
  /\ ext.calls # <<>>
  /\ state.tabs # <<>>
  /\ state.filter # <<>>

====
